---- MODULE Spec2Model ----
(***************************************************************************)
(* Model of git_commit_summarizer.py: the command line entry point, one    *)
(* run of GitCommitSummarizer.run_analysis, the cross-branch commit        *)
(* collector, the aggregator, the digest builder and the report renderer.  *)
(*                                                                         *)
(* Text is modelled as a sequence of one-character strings, so that        *)
(* lower(), `in`, startswith(), endswith(), strip() and replace() are      *)
(* computed character by character as Python computes them.               *)
(***************************************************************************)
EXTENDS Integers, Sequences, FiniteSets, TLC

\* ------------------------------------------------------------------ bounds

\* Number of commits that exist in the repository under analysis.
NumCommits == 3

\* Number of distinct branch names the repository can have.
MaxBranches == 2

\* Number of git queries (history or auxiliary) that may fail in one run.
MaxFailures == 1

\* Length of a commit collection handed to the aggregator on its own.
MaxCollection == 2

\* Appends to the log file that fail in one run of run_analysis.
MaxLogFailures == 1

\* ------------------------------------------------------- program constants

\* GitCommitSummarizer.MAX_COMMITS_TO_ANALYZE. The source sets 50; the model
\* scales the limit down so that a repository of NumCommits commits can
\* exceed it.
MAX_COMMITS_TO_ANALYZE == 2

\* generate_report: language files listed, commits listed, branches named.
REPORT_KOTLIN_CAP == 15
REPORT_COMMIT_CAP == 10
REPORT_BRANCH_CAP == 5

\* --------------------------------------------------------------- text

Range(s) == {s[i] : i \in 1..Len(s)}

Min(a, b) == IF a < b THEN a ELSE b

\* str.lower() on one character of the model's alphabet.
LowerChar(c) ==
    CASE c = "A" -> "a"
      [] c = "B" -> "b"
      [] c = "L" -> "l"
      [] c = "O" -> "o"
      [] OTHER -> c

\* str.lower()
Lower(s) == [i \in 1..Len(s) |-> LowerChar(s[i])]

\* Python's `sub in s` for strings.
StrIn(sub, s) ==
    \E i \in 0..(Len(s) - Len(sub)) : SubSeq(s, i + 1, i + Len(sub)) = sub

\* s.startswith(p)
StartsWith(s, p) == Len(p) <= Len(s) /\ SubSeq(s, 1, Len(p)) = p

\* s.endswith(p)
EndsWith(s, p) ==
    Len(p) <= Len(s) /\ SubSeq(s, Len(s) - Len(p) + 1, Len(s)) = p

\* ------------------------------------------------------ the repository

\* What `git log --pretty=format:%H|%an|%ae|%ad|%s|%D --date=iso` prints for
\* the commits of the repository. A commit's fields are a function of its
\* hash. %H is modelled as <<first 8 characters, remaining characters>>.
\* %ad with --date=iso is the author's wall clock time followed by the
\* author's UTC offset: [wall, tz], both in hours.
AuthorTable == << <<"A","l">>, <<"B","o">>, <<"b","A","l">>, <<"B","o">> >>
EmailTable ==
    << <<"b","@","x">>, <<"A","@","x">>, <<"A","@","x">>, <<"b","@","x">> >>
DateTable ==
    << [wall |-> 2, tz |-> 2], [wall |-> 1, tz |-> 0],
       [wall |-> 1, tz |-> 0], [wall |-> 1, tz |-> -1] >>
FilesTable ==
    << << <<"a",".","k","t">>, <<"b",".","x","m","l">> >>,
       << <<"a",".","k","t">>, <<"M">> >>,
       << <<".","k","t">>, <<"d",".","x","/","e">> >>,
       << >> >>

Wrap(i, n) == ((i - 1) % n) + 1

CommitIds == 1..NumCommits

HashOf(i) == <<i % 2, i>>

\* One line of the history query's output, already split at '|'.
LogLine(i) ==
    << HashOf(i),
       AuthorTable[Wrap(i, Len(AuthorTable))],
       EmailTable[Wrap(i, Len(EmailTable))],
       DateTable[Wrap(i, Len(DateTable))],
       <<"m", i>>,
       <<>> >>

\* Output of `git show --name-only --pretty=format: <hash>`.
ShowNameOnly(hash_full) == FilesTable[Wrap(hash_full[2], Len(FilesTable))]

\* Output of `git show --stat --pretty=format: <hash>`.
ShowStat(hash_full) ==
    [k \in 1..Len(ShowNameOnly(hash_full)) |->
        <<ShowNameOnly(hash_full)[k], "|", "1">>]

\* The history query's possible outputs: the commits of a branch that pass
\* git's own filters, newest first as git lists them.
RECURSIVE LinesOf(_, _)
LinesOf(S, i) ==
    IF i = 0 THEN <<>>
    ELSE IF i \in S THEN <<LogLine(i)>> \o LinesOf(S, i - 1)
         ELSE LinesOf(S, i - 1)

LogOutputs == {LinesOf(S, NumCommits) : S \in SUBSET CommitIds}

\* Resolved identities (`git config user.name`, `git config user.email`).
UserNames == {<<>>, <<"a","L">>}
UserEmails == {<<>>, <<"a","@">>}

\* ------------------------------------------------------ commit collector

\* execute_git_command: the output lines on exit status 0; the empty list on
\* a non-zero status, a timeout or any other exception.
ExecuteGitCommand(ok, output) == IF ok THEN output ELSE <<>>

\* The identity test without the emptiness guards: '' is in every string.
IsMyCommit_EmptyMatches(user_info, author_name, author_email) ==
    \/ StrIn(Lower(user_info.name), Lower(author_name))
    \/ StrIn(Lower(user_info.email), Lower(author_email))

\* is_my_commit of get_my_commits_from_all_branches. A Python string is
\* true when it is not empty.
IsMyCommit(user_info, author_name, author_email) ==
    \/ user_info.name # <<>> /\ StrIn(Lower(user_info.name), Lower(author_name))
    \/ user_info.email # <<>> /\ StrIn(Lower(user_info.email), Lower(author_email))

IsKotlin(f) == EndsWith(f, <<".","k","t">>)

IsAndroid(f) ==
    \/ EndsWith(f, <<".","k","t">>)
    \/ EndsWith(f, <<".","x","m","l">>)
    \/ EndsWith(f, <<".","j","a","v","a">>)
    \/ EndsWith(f, <<".","g","r","a","d","l","e">>)

\* The commit_info dictionary built for one retained line.
CommitInfo(parts, branch, files_ok, diff_ok) ==
    LET hash_full == parts[1]
        files_changed == ExecuteGitCommand(files_ok, ShowNameOnly(hash_full))
    IN  [hash |-> hash_full[1],
         hash_full |-> hash_full,
         author |-> parts[2],
         email |-> parts[3],
         date |-> parts[4],
         message |-> parts[5],
         branch |-> branch,
         branch_info |-> IF Len(parts) > 5 THEN parts[6] ELSE branch,
         files_changed |-> files_changed,
         kotlin_files |-> SelectSeq(files_changed, IsKotlin),
         android_files |-> SelectSeq(files_changed, IsAndroid),
         diff_stats |-> ExecuteGitCommand(diff_ok, ShowStat(hash_full))]

\* The loop body without the dedup test.
ProcessLine_NoDedup(all_commits, user_info, branch, parts, files_failed, diff_failed) ==
    IF Len(parts) < 5 THEN all_commits
    ELSE IF ~IsMyCommit(user_info, parts[2], parts[3]) THEN all_commits
    ELSE Append(all_commits,
                CommitInfo(parts, branch, parts[1] \notin files_failed,
                           parts[1] \notin diff_failed))

\* The loop body with a dedup that re-attributes a known commit to the
\* branch at hand.
ProcessLine_LastBranchWins(all_commits, user_info, branch, parts, files_failed, diff_failed) ==
    IF Len(parts) < 5 THEN all_commits
    ELSE IF \E k \in 1..Len(all_commits) : all_commits[k].hash_full = parts[1]
         THEN [k \in 1..Len(all_commits) |->
                IF all_commits[k].hash_full = parts[1]
                THEN [all_commits[k] EXCEPT !.branch = branch]
                ELSE all_commits[k]]
    ELSE IF ~IsMyCommit(user_info, parts[2], parts[3]) THEN all_commits
    ELSE Append(all_commits,
                CommitInfo(parts, branch, parts[1] \notin files_failed,
                           parts[1] \notin diff_failed))

\* The loop body when a failing auxiliary query costs the commit.
ProcessLine_AuxFailureDropsCommit(all_commits, user_info, branch, parts, files_failed, diff_failed) ==
    IF Len(parts) < 5 THEN all_commits
    ELSE IF \E k \in 1..Len(all_commits) : all_commits[k].hash_full = parts[1]
         THEN all_commits
    ELSE IF ~IsMyCommit(user_info, parts[2], parts[3]) THEN all_commits
    ELSE IF parts[1] \in files_failed \cup diff_failed THEN all_commits
    ELSE Append(all_commits, CommitInfo(parts, branch, TRUE, TRUE))

\* The body of `for line in commit_lines` for one line: the shape test, the
\* dedup test against everything accumulated so far, the identity test, the
\* two auxiliary queries and the append. files_failed and diff_failed are the
\* hashes whose auxiliary query fails.
ProcessLine(all_commits, user_info, branch, parts, files_failed, diff_failed) ==
    IF Len(parts) < 5 THEN all_commits
    ELSE IF \E k \in 1..Len(all_commits) : all_commits[k].hash_full = parts[1]
         THEN all_commits
    ELSE IF ~IsMyCommit(user_info, parts[2], parts[3]) THEN all_commits
    ELSE Append(all_commits,
                CommitInfo(parts, branch, parts[1] \notin files_failed,
                           parts[1] \notin diff_failed))

\* One iteration of `for branch in branches`, after the history query.
RECURSIVE ProcessBranch(_, _, _, _, _, _)
ProcessBranch(all_commits, user_info, branch, commit_lines, files_failed, diff_failed) ==
    IF commit_lines = <<>> THEN all_commits
    ELSE ProcessBranch(
            ProcessLine(all_commits, user_info, branch, Head(commit_lines),
                        files_failed, diff_failed),
            user_info, branch, Tail(commit_lines), files_failed, diff_failed)

\* The hashes a branch iteration appends, hence the hashes that receive the
\* two auxiliary queries in that iteration.
NewlyRetained(all_commits, user_info, commit_lines) ==
    LET after == ProcessBranch(all_commits, user_info, <<>>, commit_lines, {}, {})
    IN  {after[k].hash_full : k \in (Len(all_commits) + 1)..Len(after)}

\* A git command as execute_git_command receives it: what it asks for and
\* the branch or commit it asks about.
GitCall(cmd, arg) == [cmd |-> cmd, arg |-> arg]

\* The loop body issuing its two auxiliary queries before any test.
CallsOfLine_BeforeChecks(all_commits, user_info, parts) ==
    IF Len(parts) < 5 THEN <<>>
    ELSE <<GitCall("show --name-only", parts[1]), GitCall("show --stat", parts[1])>>

\* The git commands the loop body runs for one line: none when the line is
\* malformed, a known commit or somebody else's; otherwise files_command,
\* then diff_command.
CallsOfLine(all_commits, user_info, parts) ==
    IF Len(parts) < 5 THEN <<>>
    ELSE IF \E k \in 1..Len(all_commits) : all_commits[k].hash_full = parts[1]
         THEN <<>>
    ELSE IF ~IsMyCommit(user_info, parts[2], parts[3]) THEN <<>>
    ELSE <<GitCall("show --name-only", parts[1]), GitCall("show --stat", parts[1])>>

\* The git commands of the lines of one branch, in order.
RECURSIVE CallsOfLines(_, _, _, _, _, _)
CallsOfLines(all_commits, user_info, branch, commit_lines, files_failed, diff_failed) ==
    IF commit_lines = <<>> THEN <<>>
    ELSE CallsOfLine(all_commits, user_info, Head(commit_lines))
         \o CallsOfLines(
                ProcessLine(all_commits, user_info, branch, Head(commit_lines),
                            files_failed, diff_failed),
                user_info, branch, Tail(commit_lines), files_failed, diff_failed)

\* The requests.post calls of one generate_bullet_summary: none on an empty
\* list, where it returns before building the request, else one.
ChatRequests(commits) == IF commits = <<>> THEN 0 ELSE 1

\* Python's `<` on the UTC offset text of --date=iso ("+0530", "-0100"):
\* '+' sorts before '-', then the digits decide.
TzStrLess(t1, t2) ==
    IF (t1 < 0) # (t2 < 0) THEN t2 < 0
    ELSE IF t1 < 0 THEN -t1 < -t2 ELSE t1 < t2

\* Python's `<` on two commit['date'] strings of equal layout.
DateStrLess(d1, d2) ==
    \/ d1.wall < d2.wall
    \/ d1.wall = d2.wall /\ TzStrLess(d1.tz, d2.tz)

\* list.sort(key=date, reverse=True) is stable: x goes behind every element
\* whose key is not smaller.
RECURSIVE InsertDesc(_, _)
InsertDesc(x, s) ==
    IF s = <<>> THEN <<x>>
    ELSE IF DateStrLess(Head(s).date, x.date) THEN <<x>> \o s
         ELSE <<Head(s)>> \o InsertDesc(x, Tail(s))

RECURSIVE SortByDateDesc(_)
SortByDateDesc(s) ==
    IF s = <<>> THEN <<>>
    ELSE InsertDesc(s[Len(s)], SortByDateDesc(SubSeq(s, 1, Len(s) - 1)))

\* all_commits[:MAX_COMMITS_TO_ANALYZE] after the sort.
LimitCommits(all_commits) ==
    SubSeq(SortByDateDesc(all_commits), 1,
           Min(Len(all_commits), MAX_COMMITS_TO_ANALYZE))

\* ------------------------------------------------------------ aggregator

\* Index of the last occurrence of character c in p, 0 when there is none
\* (str.rfind, one-based).
RFind(p, c) ==
    IF \E i \in 1..Len(p) : p[i] = c
    THEN CHOOSE i \in 1..Len(p) : p[i] = c /\ \A j \in (i + 1)..Len(p) : p[j] # c
    ELSE 0

\* os.path.splitext(p)[1]: the text from the last dot of the last path
\* component, provided a character other than a dot precedes it there.
SplitExt(p) ==
    LET sepIndex == RFind(p, "/")
        dotIndex == RFind(p, ".")
    IN  IF dotIndex > sepIndex
           /\ \E i \in (sepIndex + 1)..(dotIndex - 1) : p[i] # "."
        THEN SubSeq(p, dotIndex, Len(p))
        ELSE <<>>

NO_EXTENSION == <<"n","o","_","e","x","t","e","n","s","i","o","n">>

\* `os.path.splitext(file)[1] or 'no_extension'`
ExtOf(file) == IF SplitExt(file) = <<>> THEN NO_EXTENSION ELSE SplitExt(file)

\* The file_types dictionary: one count per changed-file entry.
FileTypes(commits) ==
    LET entries == UNION {{<<k, j>> : j \in 1..Len(commits[k].files_changed)} :
                            k \in 1..Len(commits)}
        exts == {ExtOf(commits[e[1]].files_changed[e[2]]) : e \in entries}
    IN  [x \in exts |->
            Cardinality({e \in entries :
                ExtOf(commits[e[1]].files_changed[e[2]]) = x})]

FilesOf(commits, field) ==
    UNION {Range(commits[k][field]) : k \in 1..Len(commits)}

\* analyze_my_commits with a histogram that counts each distinct path once.
AnalyzeMyCommits_HistogramOfDistinct(commits) ==
    [total_commits |-> Len(commits),
     total_files |-> Cardinality(FilesOf(commits, "files_changed")),
     kotlin_files |-> Cardinality(FilesOf(commits, "kotlin_files")),
     android_files |-> Cardinality(FilesOf(commits, "android_files")),
     branches |-> {commits[k].branch : k \in 1..Len(commits)},
     file_types |-> [x \in {ExtOf(f) : f \in FilesOf(commits, "files_changed")} |-> Cardinality({f \in FilesOf(commits, "files_changed") : ExtOf(f) = x})],
     kotlin_file_list |-> FilesOf(commits, "kotlin_files"),
     android_file_list |-> FilesOf(commits, "android_files")]

\* analyze_my_commits. list(set) has no defined order: the three lists are
\* carried as the sets they were built from.
AnalyzeMyCommits(commits) ==
    IF commits = <<>>
    THEN [total_commits |-> 0, total_files |-> 0, kotlin_files |-> 0,
          android_files |-> 0, branches |-> {}, file_types |-> [x \in {} |-> 0],
          kotlin_file_list |-> {}, android_file_list |-> {}]
    ELSE [total_commits |-> Len(commits),
          total_files |-> Cardinality(FilesOf(commits, "files_changed")),
          kotlin_files |-> Cardinality(FilesOf(commits, "kotlin_files")),
          android_files |-> Cardinality(FilesOf(commits, "android_files")),
          branches |-> {commits[k].branch : k \in 1..Len(commits)},
          file_types |-> FileTypes(commits),
          kotlin_file_list |-> FilesOf(commits, "kotlin_files"),
          android_file_list |-> FilesOf(commits, "android_files")]

\* The slices a list(set) can yield: `lst[:cap]` of a list in any order.
Slices(S, cap) ==
    {T \in SUBSET S : Cardinality(T) = Min(Cardinality(S), cap)}

\* --------------------------------------------------------- digest builder

\* What requests.post can come back with.
HttpStatuses == {200, 204, 500}

ChatOutcomes ==
    [kind : {"response"}, status : {200}, well_formed : BOOLEAN]
    \cup [kind : {"response"}, status : HttpStatuses \ {200},
          well_formed : {FALSE}]
    \cup {[kind |-> "network_error", status |-> 0, well_formed |-> FALSE]}

NoChat == [kind |-> "none", status |-> 0, well_formed |-> FALSE]

\* The digest builder with a fallback text that leaves the status out.
GenerateBulletSummary_NoStatus(commits, chat) ==
    IF commits = <<>> THEN [kind |-> "no_commits", status_code |-> 0]
    ELSE IF chat.kind = "response" /\ chat.status = 200 /\ chat.well_formed
    THEN [kind |-> "summary", status_code |-> 0]
    ELSE IF chat.kind = "response"
    THEN [kind |-> "failed_exception", status_code |-> 0]
    ELSE [kind |-> "failed_network_error", status_code |-> 0]

\* generate_bullet_summary. The returned text is modelled by the literal it
\* is built from (kind) and the HTTP status the f-string embeds in it
\* (status_code, 0 when the text embeds none).
GenerateBulletSummary(commits, chat) ==
    IF commits = <<>> THEN [kind |-> "no_commits", status_code |-> 0]
    ELSE IF chat.kind = "response"
    THEN IF chat.status = 200
         THEN IF chat.well_formed
              THEN [kind |-> "summary", status_code |-> 0]
              ELSE [kind |-> "failed_exception", status_code |-> 0]
         ELSE [kind |-> "failed_api_error", status_code |-> chat.status]
    ELSE [kind |-> "failed_network_error", status_code |-> 0]

NoSummary == [kind |-> "none", status_code |-> 0]

\* -------------------------------------------------------- report renderer

NoSection == [present |-> FALSE, entries |-> <<>>, more |-> 0]

\* The renderer with a commit listing that is not conditional.
GenerateReport_AlwaysListsCommits(commits, analysis, ai_summary, user_info, branches_shown, kotlin_shown) ==
    [present |-> TRUE,
     author |-> user_info,
     branches |-> branches_shown,
     branches_more |-> Cardinality(analysis.branches) > REPORT_BRANCH_CAP,
     my_commits |-> analysis.total_commits,
     files_modified |-> analysis.total_files,
     kotlin_files |-> analysis.kotlin_files,
     branches_touched |-> Cardinality(analysis.branches),
     digest |-> ai_summary,
     kotlin_section |->
        [present |-> analysis.kotlin_file_list # {}, entries |-> kotlin_shown,
         more |-> 0],
     commit_section |->
        [present |-> TRUE,
         entries |-> [k \in 1..Min(Len(commits), REPORT_COMMIT_CAP) |->
                        <<commits[k].hash, commits[k].branch,
                          commits[k].message>>],
         more |-> Len(commits) - Min(Len(commits), REPORT_COMMIT_CAP)]]

\* generate_report. branches_shown and kotlin_shown are the slices
\* analysis['branches'][:5] and analysis['kotlin_file_list'][:15].
GenerateReport(commits, analysis, ai_summary, user_info, branches_shown, kotlin_shown) ==
    [present |-> TRUE,
     author |-> user_info,
     branches |-> branches_shown,
     branches_more |-> Cardinality(analysis.branches) > REPORT_BRANCH_CAP,
     my_commits |-> analysis.total_commits,
     files_modified |-> analysis.total_files,
     kotlin_files |-> analysis.kotlin_files,
     branches_touched |-> Cardinality(analysis.branches),
     digest |-> ai_summary,
     kotlin_section |->
        IF analysis.kotlin_file_list # {}
        THEN [present |-> TRUE, entries |-> kotlin_shown,
              more |-> IF Cardinality(analysis.kotlin_file_list) > REPORT_KOTLIN_CAP
                       THEN Cardinality(analysis.kotlin_file_list) - REPORT_KOTLIN_CAP
                       ELSE 0]
        ELSE [present |-> FALSE, entries |-> {}, more |-> 0],
     commit_section |->
        IF commits # <<>>
        THEN LET commits_to_show == Min(Len(commits), REPORT_COMMIT_CAP)
             IN  [present |-> TRUE,
                  entries |-> [k \in 1..commits_to_show |->
                                 <<commits[k].hash, commits[k].branch,
                                   commits[k].message>>],
                  more |-> Len(commits) - commits_to_show]
        ELSE NoSection]

NoUser == [name |-> <<>>, email |-> <<>>]

NoAnalysis == AnalyzeMyCommits(<<>>)

NoReport ==
    [present |-> FALSE, author |-> NoUser, branches |-> {},
     branches_more |-> FALSE, my_commits |-> 0, files_modified |-> 0,
     kotlin_files |-> 0, branches_touched |-> 0, digest |-> NoSummary,
     kotlin_section |-> [present |-> FALSE, entries |-> {}, more |-> 0],
     commit_section |-> NoSection]

\* ------------------------------------------------------- branch enumerator

STAR == "*"
SPACE == " "
ORIGIN_PREFIX == <<"o","r","i","g","i","n","/">>
ORIGIN_HEAD == <<"o","r","i","g","i","n","/","H","E","A","D">>

\* str.strip('* '): drop leading and trailing characters that are '*' or ' '.
RECURSIVE LStrip(_)
LStrip(s) ==
    IF s # <<>> /\ Head(s) \in {STAR, SPACE} THEN LStrip(Tail(s)) ELSE s

RECURSIVE RStrip(_)
RStrip(s) ==
    IF s # <<>> /\ s[Len(s)] \in {STAR, SPACE}
    THEN RStrip(SubSeq(s, 1, Len(s) - 1)) ELSE s

Strip(s) == RStrip(LStrip(s))

\* str.replace(old, ''): every non-overlapping occurrence, left to right.
RECURSIVE Remove(_, _)
Remove(s, old) ==
    IF Len(s) < Len(old) THEN s
    ELSE IF StartsWith(s, old) THEN Remove(SubSeq(s, Len(old) + 1, Len(s)), old)
         ELSE <<Head(s)>> \o Remove(Tail(s), old)

\* get_all_branches, as the set it builds before list().
GetAllBranches(local_branches, remote_branches) ==
    {Strip(local_branches[i]) : i \in {j \in 1..Len(local_branches) :
        /\ local_branches[j] # <<>>
        /\ ~StartsWith(local_branches[j], <<STAR>>)}}
    \cup
    {Remove(remote_branches[i], ORIGIN_PREFIX) :
        i \in {j \in 1..Len(remote_branches) :
            /\ remote_branches[j] # <<>>
            /\ ~StartsWith(remote_branches[j], ORIGIN_HEAD)}}

\* Branch names of the repository and the lines the two branch listings
\* print for them.
BranchTable == << <<"m","a","i","n">>, <<"d","e","v">>, <<"f","e","a","t">> >>

BranchNames == {BranchTable[i] : i \in 1..MaxBranches}

RECURSIVE ListOf(_, _, _)
ListOf(S, table, i) ==
    IF i > Len(table) THEN <<>>
    ELSE IF table[i] \in S THEN <<table[i]>> \o ListOf(S, table, i + 1)
         ELSE ListOf(S, table, i + 1)

LocalListings == {ListOf(S, BranchTable, 1) : S \in SUBSET BranchNames}

Reverse(s) == [i \in 1..Len(s) |-> s[Len(s) + 1 - i]]

\* list(all_branches): a set has no defined order. The model lets the list
\* run through the names in either direction.
Orders(S) == {ListOf(S, BranchTable, 1), Reverse(ListOf(S, BranchTable, 1))}

RemoteListings ==
    {(IF head THEN <<ORIGIN_HEAD>> ELSE <<>>)
        \o [i \in 1..Len(l) |-> ORIGIN_PREFIX \o l[i]] :
            head \in BOOLEAN, l \in LocalListings}

\* ------------------------------------------------------------ the state

VARIABLES
    pc,            \* where the process is
    scheduled,     \* main took the --schedule path (schedule_for_2_30_am)
    save_to_file,  \* run_analysis' parameter
    api_key,       \* self.api_key: "unset", then "set" or "missing"
    user_info,     \* get_git_user_info() as resolved by the collector
    branches,      \* get_all_branches() as a list
    branch_idx,    \* branches of the loop already processed
    all_commits,   \* the collector's accumulated list
    commit_lines,  \* per processed branch, the lines its history query gave
    failures,      \* how many git queries of this collection have failed
    limited_commits,  \* the collector's sorted, truncated list
    commits,       \* the collector's return value in run_analysis
    analysis,      \* analyze_my_commits' return value
    chat,          \* the chat completion's answer
    ai_summary,    \* generate_bullet_summary's return value
    report,        \* generate_report's return value
    filename,      \* save_report's return value in run_analysis
    saved_file,    \* the content of the report file on disk
    result,        \* what run_analysis returned
    exit_code,     \* the process exit status, -1 while running
    outcome,       \* why the process ended
    branches_found,   \* how many branches the enumerator gave this run
    local_branches,   \* get_all_branches called on its own: its two listings
    remote_branches,
    all_branches,     \* and its result
    console,       \* what log_message has printed: the call sites, by line
    log_file,      \* what log_message has appended to self.log_file
    git_calls,     \* the git commands this collection has run, in order
    chat_calls     \* the requests.post calls of generate_bullet_summary

vars ==
    <<pc, scheduled, save_to_file, api_key, user_info, branches, branch_idx, all_commits,
      commit_lines, failures, limited_commits, commits, analysis, chat,
      ai_summary, report, filename, saved_file, result, exit_code, outcome,
      branches_found, local_branches, remote_branches, all_branches,
      console, log_file, git_calls, chat_calls>>

\* The frame of get_my_commits_from_all_branches.
collector ==
    <<user_info, branches, branch_idx, all_commits, commit_lines, failures,
      limited_commits, git_calls>>

\* The frame of run_analysis.
analysis_frame ==
    <<commits, analysis, chat, ai_summary, report, filename, result,
      chat_calls>>

locals == <<collector, analysis_frame>>

cli == <<scheduled, save_to_file, api_key>>

process == <<saved_file, exit_code, outcome>>

\* The command lines argparse accepts, as far as they steer the run.
Args == [schedule : BOOLEAN, no_save : BOOLEAN, api_key : BOOLEAN]

enumerator == <<local_branches, remote_branches, all_branches>>

\* The log, on the terminal and on disk. Spec, SpecBranches and SpecAnalyze
\* do not follow it; SpecPersist does.
logging == <<console, log_file>>

NoLocals ==
    /\ user_info = NoUser
    /\ branches = <<>>
    /\ branch_idx = 0
    /\ all_commits = <<>>
    /\ commit_lines = <<>>
    /\ failures = 0
    /\ limited_commits = <<>>
    /\ git_calls = <<>>
    /\ chat_calls = 0
    /\ commits = <<>>
    /\ analysis = NoAnalysis
    /\ chat = NoChat
    /\ ai_summary = NoSummary
    /\ report = NoReport
    /\ filename = "none"
    /\ result = "none"

\* get_my_commits_from_all_branches returns or is left by an exception: its
\* frame is gone.
CollectorGone ==
    /\ user_info' = NoUser
    /\ branches' = <<>>
    /\ branch_idx' = 0
    /\ all_commits' = <<>>
    /\ commit_lines' = <<>>
    /\ failures' = 0
    /\ limited_commits' = <<>>
    /\ git_calls' = <<>>

\* An exception leaves run_analysis: its frame and the collector's are gone.
Unwind ==
    /\ CollectorGone
    /\ commits' = <<>>
    /\ analysis' = NoAnalysis
    /\ chat' = NoChat
    /\ ai_summary' = NoSummary
    /\ report' = NoReport
    /\ filename' = "none"
    /\ result' = "none"
    /\ chat_calls' = 0

\* The process has started; main has not parsed its arguments yet.
Init ==
    /\ pc = "main"
    /\ scheduled = FALSE
    /\ save_to_file = TRUE
    /\ api_key = "unset"
    /\ NoLocals
    /\ saved_file = NoReport
    /\ exit_code = -1
    /\ outcome = "running"
    /\ branches_found = -1
    /\ console = <<>>
    /\ log_file = <<>>
    /\ local_branches = <<>>
    /\ remote_branches = <<>>
    /\ all_branches = {}

\* ------------------------------------------------------------ main

\* main: `if args.schedule: schedule_for_2_30_am()` up to time.sleep.
MainSchedule ==
    /\ pc = "main"
    /\ \E a \in Args : a.schedule
    /\ scheduled' = TRUE
    /\ pc' = "sleeping"
    /\ UNCHANGED <<save_to_file, api_key, locals, process, branches_found,
                   enumerator, logging>>

\* schedule_for_2_30_am after the sleep: GitCommitSummarizer() reads the key
\* from the environment only, and run_analysis() gets its default
\* save_to_file=True. The constructor's ValueError is not caught here and
\* ends the process with a traceback and status 1.
ScheduleWake ==
    /\ pc = "sleeping"
    /\ \E env_key \in BOOLEAN :
        IF env_key
        THEN /\ api_key' = "set"
             /\ pc' = "run_analysis"
             /\ UNCHANGED <<exit_code, outcome>>
        ELSE /\ api_key' = "missing"
             /\ pc' = "exited"
             /\ exit_code' = 1
             /\ outcome' = "missing_credential"
    /\ UNCHANGED <<scheduled, save_to_file, locals, saved_file,
                   branches_found, enumerator, logging>>

\* main: GitCommitSummarizer(api_key=args.api_key) inside the try block,
\* `api_key or os.getenv('OPENAI_API_KEY')`; run_analysis is then called
\* with save_to_file=not args.no_save.
MainConstruct ==
    /\ pc = "main"
    /\ \E a \in Args, env_key \in BOOLEAN :
        /\ ~a.schedule
        /\ save_to_file' = ~a.no_save
        /\ IF a.api_key \/ env_key
           THEN /\ api_key' = "set"
                /\ pc' = "run_analysis"
                /\ UNCHANGED <<exit_code, outcome>>
           ELSE /\ api_key' = "missing"
                /\ pc' = "exited"
                /\ exit_code' = 1
                /\ outcome' = "missing_credential"
    /\ UNCHANGED <<scheduled, locals, saved_file, branches_found,
                   enumerator, logging>>

\* run_analysis up to the branch loop of the collector: the repository
\* check, get_git_user_info and get_all_branches.
RunAnalysisStart ==
    /\ pc = "run_analysis"
    /\ \E is_repo \in BOOLEAN :
        IF ~is_repo
        THEN /\ result' = "not_a_git_repository"
             /\ pc' = "returned"
             /\ UNCHANGED <<user_info, branches, branches_found>>
        ELSE /\ \E name \in UserNames, email \in UserEmails :
                    user_info' = [name |-> name, email |-> email]
             /\ \E l \in LocalListings, r \in RemoteListings :
                    branches' \in Orders(GetAllBranches(l, r))
             /\ branches_found' = Len(branches')
             /\ pc' = "collect"
             /\ result' = result
    /\ UNCHANGED <<cli, branch_idx, all_commits, commit_lines,
                   failures, limited_commits, commits, analysis, chat,
                   ai_summary, report, filename, process, enumerator, logging, chat_calls, git_calls>>

\* ------------------------------------------------------------ collector

\* One iteration of `for branch in branches`: the history query, then for
\* every retained line the two auxiliary queries. Any of the queries may
\* fail.
BranchStep ==
    /\ pc = "collect"
    /\ branch_idx < Len(branches)
    /\ LET branch == branches[branch_idx + 1] IN
       \E log_ok \in BOOLEAN, output \in LogOutputs :
        LET lines == ExecuteGitCommand(log_ok, output)
            fresh == NewlyRetained(all_commits, user_info, lines)
        IN  \E files_failed \in SUBSET fresh, diff_failed \in SUBSET fresh :
            LET now_failed ==
                    (IF log_ok THEN 0 ELSE 1) + Cardinality(files_failed)
                    + Cardinality(diff_failed)
            IN  /\ log_ok \/ output = <<>>
                /\ failures + now_failed <= MaxFailures
                /\ all_commits' = ProcessBranch(all_commits, user_info, branch,
                                                lines, files_failed, diff_failed)
                /\ commit_lines' = Append(commit_lines, lines)
                /\ failures' = failures + now_failed
                /\ git_calls' = Append(git_calls, GitCall("log", branch))
                        \o CallsOfLines(all_commits, user_info, branch, lines,
                                        files_failed, diff_failed)
    /\ branch_idx' = branch_idx + 1
    /\ UNCHANGED <<pc, scheduled, save_to_file, api_key, user_info, branches, limited_commits,
                   analysis_frame, process, branches_found, enumerator, logging>>

\* After the loop: the sort and the truncation.
CollectFinish ==
    /\ pc = "collect"
    /\ branch_idx = Len(branches)
    /\ limited_commits' = LimitCommits(all_commits)
    /\ pc' = "collected"
    /\ UNCHANGED <<cli, user_info, branches, branch_idx,
                   all_commits, commit_lines, failures, analysis_frame,
                   process, branches_found, enumerator, logging, git_calls>>

\* --------------------------------------------- the rest of run_analysis

\* run_analysis without its early return on an empty list.
CollectReturn_NoEarlyReturn ==
    /\ pc = "collected"
    /\ commits' = limited_commits
    /\ CollectorGone
    /\ pc' = "analyze"
    /\ UNCHANGED <<cli, analysis, chat, ai_summary, report, filename, result,
                   process, branches_found, enumerator, logging, chat_calls>>

\* The collector returns limited_commits; run_analysis returns at once when
\* the list is empty.
CollectReturn ==
    /\ pc = "collected"
    /\ commits' = limited_commits
    /\ CollectorGone
    /\ IF limited_commits = <<>>
       THEN pc' = "returned" /\ result' = "no_commits_found"
       ELSE pc' = "analyze" /\ result' = result
    /\ UNCHANGED <<cli, analysis, chat, ai_summary, report, filename,
                   process, branches_found, enumerator, logging, chat_calls>>

Analyze ==
    /\ pc = "analyze"
    /\ analysis' = AnalyzeMyCommits(commits)
    /\ pc' = "summarize"
    /\ UNCHANGED <<cli, collector, commits, chat, ai_summary, report,
                   filename, result, process, branches_found, enumerator, logging, chat_calls>>

\* generate_bullet_summary: one requests.post, answered somehow.
Summarize ==
    /\ pc = "summarize"
    /\ \E answer \in ChatOutcomes :
        /\ chat' = answer
        /\ ai_summary' = GenerateBulletSummary(commits, answer)
    /\ chat_calls' = chat_calls + ChatRequests(commits)
    /\ pc' = "report"
    /\ UNCHANGED <<cli, collector, commits, analysis, report, filename,
                   result, process, branches_found, enumerator, logging>>

\* generate_report, which resolves the identity again for the header.
Report ==
    /\ pc = "report"
    /\ \E name \in UserNames, email \in UserEmails,
          bs \in Slices(analysis.branches, REPORT_BRANCH_CAP),
          ks \in Slices(analysis.kotlin_file_list, REPORT_KOTLIN_CAP) :
        report' = GenerateReport(commits, analysis, ai_summary,
                                 [name |-> name, email |-> email], bs, ks)
    /\ pc' = "save"
    /\ UNCHANGED <<cli, collector, commits, analysis, chat, ai_summary,
                   filename, result, process, branches_found, enumerator, logging, chat_calls>>

REPORT_FILENAME == "my_git_summary_<timestamp>.md"

\* save_report(report): the file's content afterwards and the returned
\* name, which is '' when the write raised.
SaveReport(content, write_ok, on_disk) ==
    IF write_ok
    THEN [file |-> content, filename |-> REPORT_FILENAME]
    ELSE [file |-> on_disk, filename |-> ""]

\* The tail of run_analysis: `if save_to_file: save_report(report)`, return.
Save ==
    /\ pc = "save"
    /\ IF save_to_file
       THEN \E write_ok \in BOOLEAN :
                /\ saved_file' = SaveReport(report, write_ok, saved_file).file
                /\ filename' = SaveReport(report, write_ok, saved_file).filename
       ELSE UNCHANGED <<saved_file, filename>>
    /\ result' = "report"
    /\ pc' = "returned"
    /\ UNCHANGED <<cli, collector, commits, analysis, chat, ai_summary,
                   report, exit_code, outcome, branches_found, enumerator, logging, chat_calls>>

\* run_analysis has returned; the caller prints and the process ends.
MainFinish ==
    /\ pc = "returned"
    /\ pc' = "exited"
    /\ exit_code' = 0
    /\ outcome' = "completed"
    /\ UNCHANGED <<cli, locals, saved_file, branches_found, enumerator, logging>>

\* ------------------------------------------------------- exceptions

Running ==
    {"sleeping", "run_analysis", "collect", "collected", "analyze",
     "summarize", "report", "save", "returned"}

\* What the interpreter reports for a KeyboardInterrupt nobody catches: a
\* traceback and status 1, or death by SIGINT, which a shell shows as 130.
UncaughtInterruptStatus == {1, 130}

\* Ctrl-C. KeyboardInterrupt is no Exception, so no handler below main
\* catches it. main's try block turns it into sys.exit(0);
\* schedule_for_2_30_am runs outside that try block.
Interrupt ==
    /\ pc \in Running
    /\ pc' = "exited"
    /\ IF scheduled
       THEN exit_code' \in UncaughtInterruptStatus
       ELSE exit_code' = 0
    /\ outcome' = "interrupted"
    /\ Unwind
    /\ UNCHANGED <<cli, saved_file, branches_found, enumerator, logging>>

\* An exception that no handler below main catches (print failing inside
\* log_message, say). main's try block turns it into sys.exit(1); outside
\* it the interpreter prints the traceback and ends with status 1.
UnexpectedError ==
    /\ pc \in Running \ {"sleeping"}
    /\ pc' = "exited"
    /\ exit_code' = 1
    /\ outcome' = "unexpected_error"
    /\ Unwind
    /\ UNCHANGED <<cli, saved_file, branches_found, enumerator, logging>>

Next ==
    \/ MainSchedule
    \/ ScheduleWake
    \/ MainConstruct
    \/ RunAnalysisStart
    \/ BranchStep
    \/ CollectFinish
    \/ CollectReturn
    \/ Analyze
    \/ Summarize
    \/ Report
    \/ Save
    \/ MainFinish
    \/ Interrupt
    \/ UnexpectedError

Spec == Init /\ [][Next]_vars

\* ------------------------------------- the branch enumerator on its own

\* Lines `git branch -r --format=%(refname:short)` can print: branches of
\* origin and of a second remote, the remotes' HEAD pointers, and a branch
\* of origin whose own name has an origin/ in it.
RemoteEntryTable ==
    << <<"o","r","i","g","i","n","/","H","E","A","D">>,
       <<"o","r","i","g","i","n","/","m","a","i","n">>,
       <<"o","r","i","g","i","n","/","d","e","v">>,
       <<"u","p","s","t","r","e","a","m","/","m","a","i","n">>,
       <<"u","p","s","t","r","e","a","m","/","H","E","A","D">>,
       <<"o","r","i","g","i","n","/","f","e","a","t","u","r","e","/","o","r","i","g","i","n","/","x">> >>

RemoteInputs ==
    {ListOf(S, RemoteEntryTable, 1) : S \in SUBSET Range(RemoteEntryTable)}

\* get_all_branches is about to be called; the two listings are what the
\* two git commands will print.
InitBranches ==
    /\ pc = "get_all_branches"
    /\ local_branches \in LocalListings
    /\ remote_branches \in RemoteInputs
    /\ all_branches = {}
    /\ scheduled = FALSE
    /\ save_to_file = TRUE
    /\ api_key = "set"
    /\ NoLocals
    /\ saved_file = NoReport
    /\ exit_code = -1
    /\ outcome = "running"
    /\ branches_found = -1
    /\ console = <<>>
    /\ log_file = <<>>

EnumerateBranches ==
    /\ pc = "get_all_branches"
    /\ all_branches' = GetAllBranches(local_branches, remote_branches)
    /\ pc' = "enumerated"
    /\ UNCHANGED <<cli, locals, process, branches_found, local_branches,
                   remote_branches, logging>>

NextBranches == EnumerateBranches

SpecBranches == InitBranches /\ [][NextBranches]_vars

\* ----------------------- the aggregator and the renderer on their own

\* The records the collector can build for the repository's commits.
CollectedCommits ==
    {CommitInfo(LogLine(i), b, files_ok, TRUE) :
        i \in CommitIds, b \in BranchNames, files_ok \in BOOLEAN}

CommitCollections ==
    UNION {[1..n -> CollectedCommits] : n \in 0..MaxCollection}

\* analyze_my_commits is about to be called on a commit collection.
InitAnalyze ==
    /\ pc = "analyze_my_commits"
    /\ commits \in CommitCollections
    /\ scheduled = FALSE
    /\ save_to_file = TRUE
    /\ api_key = "set"
    /\ user_info = NoUser
    /\ branches = <<>>
    /\ branch_idx = 0
    /\ all_commits = <<>>
    /\ commit_lines = <<>>
    /\ failures = 0
    /\ limited_commits = <<>>
    /\ git_calls = <<>>
    /\ chat_calls = 0
    /\ analysis = NoAnalysis
    /\ chat = NoChat
    /\ ai_summary = NoSummary
    /\ report = NoReport
    /\ filename = "none"
    /\ result = "none"
    /\ saved_file = NoReport
    /\ exit_code = -1
    /\ outcome = "running"
    /\ branches_found = -1
    /\ console = <<>>
    /\ log_file = <<>>
    /\ local_branches = <<>>
    /\ remote_branches = <<>>
    /\ all_branches = {}

AnalyzeCall ==
    /\ pc = "analyze_my_commits"
    /\ analysis' = AnalyzeMyCommits(commits)
    /\ pc' = "generate_report"
    /\ UNCHANGED <<cli, collector, commits, chat, ai_summary, report,
                   filename, result, process, branches_found, enumerator, logging, chat_calls>>

\* generate_report on the collection, its analysis and a digest text.
ReportCall ==
    /\ pc = "generate_report"
    /\ \E answer \in ChatOutcomes, name \in UserNames, email \in UserEmails,
          bs \in Slices(analysis.branches, REPORT_BRANCH_CAP),
          ks \in Slices(analysis.kotlin_file_list, REPORT_KOTLIN_CAP) :
        /\ ai_summary' = GenerateBulletSummary(commits, answer)
        /\ report' = GenerateReport(commits, analysis, ai_summary',
                                    [name |-> name, email |-> email], bs, ks)
    /\ pc' = "rendered"
    /\ UNCHANGED <<cli, collector, commits, analysis, chat, filename, result,
                   chat_calls, process, branches_found, enumerator, logging>>

NextAnalyze == AnalyzeCall \/ ReportCall

SpecAnalyze == InitAnalyze /\ [][NextAnalyze]_vars

\* ------------------------------------- run_analysis and its log, in full

\* The line of log_message's `print(f"Warning: Could not write ...")`.
LOG_WARNING == 48

\* log_message that lets the failed append escape.
LogMessage_Raises(con, log, site, append_ok) ==
    [console |-> Append(con, site), log_file |-> IF append_ok THEN Append(log, site) ELSE log, raised |-> ~append_ok]

\* log_message(message, level), called from line `site`: the entry is
\* printed, then appended to the log file; an append that raises is caught
\* and answered by a warning on the terminal.
LogMessage(con, log, site, append_ok) ==
    IF append_ok
    THEN [console |-> Append(con, site), log_file |-> Append(log, site), raised |-> FALSE]
    ELSE [console |-> con \o <<site, LOG_WARNING>>, log_file |-> log, raised |-> FALSE]

\* Consecutive log_message calls; an exception leaving one ends the series.
RECURSIVE LogAll(_, _, _)
LogAll(st, sites, oks) ==
    IF sites = <<>> \/ st.raised THEN st
    ELSE LogAll(LogMessage(st.console, st.log_file, Head(sites), Head(oks)), Tail(sites), Tail(oks))

Logged == [console |-> console, log_file |-> log_file, raised |-> FALSE]

Warnings(con) == Len(SelectSeq(con, LAMBDA x : x = LOG_WARNING))

\* Which of n appends go through, within the bound on failures.
AppendOutcomes(n) ==
    {oks \in [1..n -> BOOLEAN] :
        Warnings(console) + Cardinality({i \in 1..n : ~oks[i]}) <= MaxLogFailures}

\* What a collection logs besides its fixed lines: nothing, or the warning
\* of a git command that failed.
GitWarnings == {<<>>, <<89>>}

\* What the collector can return, as far as the log and the save can tell:
\* the first n commits of the repository, found on the first branch.
ReturnedCollections ==
    {[k \in 1..n |-> CommitInfo(LogLine(k), BranchTable[1], TRUE, TRUE)] :
        n \in 0..MaxCollection}

\* run_analysis is about to be called by main.
InitPersist ==
    /\ pc = "run_analysis"
    /\ scheduled = FALSE
    /\ save_to_file \in BOOLEAN
    /\ api_key = "set"
    /\ NoLocals
    /\ saved_file = NoReport
    /\ exit_code = -1
    /\ outcome = "running"
    /\ branches_found = -1
    /\ local_branches = <<>>
    /\ remote_branches = <<>>
    /\ all_branches = {}
    /\ console = <<>>
    /\ log_file = <<>>

\* An exception leaves run_analysis: main's `except Exception` exits 1.
Propagate(st, file) ==
    /\ console' = st.console
    /\ log_file' = st.log_file
    /\ saved_file' = file
    /\ pc' = "exited"
    /\ exit_code' = 1
    /\ outcome' = "unexpected_error"
    /\ Unwind
    /\ UNCHANGED <<cli, branches_found, enumerator>>

\* The outcome of a step's log calls lands on the terminal and in the file.
Lands(st) == console' = st.console /\ log_file' = st.log_file

\* run_analysis up to the collector's call: the banner when verbose, the
\* repository check, the "Analyzing" line.
PersistBegin ==
    /\ pc = "run_analysis"
    /\ \E verbose \in BOOLEAN, is_repo \in BOOLEAN :
        LET sites == (IF verbose THEN <<444, 445>> ELSE <<>>)
                     \o (IF is_repo THEN <<453>> ELSE <<450>>)
        IN  \E oks \in AppendOutcomes(Len(sites)) :
            LET st == LogAll(Logged, sites, oks)
            IN  IF st.raised THEN Propagate(st, saved_file)
                ELSE /\ Lands(st)
                     /\ IF is_repo
                        THEN pc' = "get_my_commits" /\ result' = result
                        ELSE pc' = "returned" /\ result' = "not_a_git_repository"
                     /\ UNCHANGED <<cli, collector, commits, analysis, chat,
                                    ai_summary, report, filename, process,
                                    branches_found, enumerator, chat_calls>>

\* get_my_commits_from_all_branches, taken by what it returns and what it
\* logs, and the early return of run_analysis on an empty collection.
PersistCollect ==
    /\ pc = "get_my_commits"
    /\ \E cs \in ReturnedCollections, ws \in GitWarnings, truncated \in BOOLEAN :
        /\ truncated => Len(cs) = MAX_COMMITS_TO_ANALYZE
        /\ LET sites == <<127, 128, 133>> \o ws
                        \o (IF truncated THEN <<213>> ELSE <<>>) \o <<215>>
                        \o (IF cs = <<>> THEN <<460>> ELSE <<>>)
           IN  \E oks \in AppendOutcomes(Len(sites)) :
               LET st == LogAll(Logged, sites, oks)
               IN  IF st.raised THEN Propagate(st, saved_file)
                   ELSE /\ Lands(st)
                        /\ commits' = cs
                        /\ IF cs = <<>>
                           THEN pc' = "returned" /\ result' = "no_commits_found"
                           ELSE pc' = "analyze" /\ result' = result
                        /\ UNCHANGED <<cli, collector, analysis, chat,
                                       ai_summary, report, filename, process,
                                       branches_found, enumerator, chat_calls>>

\* analyze_my_commits and the "Analysis:" line.
PersistAnalyze ==
    /\ pc = "analyze"
    /\ \E oks \in AppendOutcomes(1) :
        LET st == LogAll(Logged, <<465>>, oks)
        IN  IF st.raised THEN Propagate(st, saved_file)
            ELSE /\ Lands(st)
                 /\ analysis' = AnalyzeMyCommits(commits)
                 /\ pc' = "summarize"
                 /\ UNCHANGED <<cli, collector, commits, chat, ai_summary,
                                report, filename, result, process,
                                branches_found, enumerator, chat_calls>>

\* The log calls generate_bullet_summary makes for a given answer.
DigestSites(answer, usage) ==
    <<272>> \o
    (IF answer.kind = "response"
     THEN IF answer.status = 200
          THEN (IF usage THEN <<353>> ELSE <<>>)
               \o (IF answer.well_formed THEN <<357>> ELSE <<371>>)
          ELSE <<362>>
     ELSE <<367>>)

\* The log calls inside generate_bullet_summary's try block.
DIGEST_TRY_SITES == {353, 357, 362}

\* The "Generating" line and generate_bullet_summary. A log call that
\* raised inside its try block would be caught by `except Exception`,
\* logged at line 371 and turned into the fallback text.
PersistSummarize ==
    /\ pc = "summarize"
    /\ \E answer \in ChatOutcomes, usage \in BOOLEAN :
        LET sites == <<468>> \o DigestSites(answer, usage)
        IN  \E oks \in AppendOutcomes(Len(sites)) :
            LET st == LogAll(Logged, sites, oks)
            IN  IF st.raised /\ st.console[Len(st.console)] \notin DIGEST_TRY_SITES
                THEN Propagate(st, saved_file)
                ELSE /\ IF st.raised
                        THEN /\ Lands(LogAll([st EXCEPT !.raised = FALSE], <<371>>, <<TRUE>>))
                             /\ ai_summary' = [kind |-> "failed_exception", status_code |-> 0]
                        ELSE /\ Lands(st)
                             /\ ai_summary' = GenerateBulletSummary(commits, answer)
                     /\ chat' = answer
                     /\ chat_calls' = chat_calls + ChatRequests(commits)
                     /\ pc' = "report"
                     /\ UNCHANGED <<cli, collector, commits, analysis, report,
                                    filename, result, process, branches_found,
                                    enumerator>>

\* generate_report, which logs nothing itself.
PersistReport ==
    /\ pc = "report"
    /\ \E name \in UserNames, email \in UserEmails,
          bs \in Slices(analysis.branches, REPORT_BRANCH_CAP),
          ks \in Slices(analysis.kotlin_file_list, REPORT_KOTLIN_CAP) :
        report' = GenerateReport(commits, analysis, ai_summary,
                                 [name |-> name, email |-> email], bs, ks)
    /\ pc' = "save"
    /\ UNCHANGED <<cli, collector, commits, analysis, chat, ai_summary,
                   filename, result, process, branches_found, enumerator,
                   logging, chat_calls>>

\* save_report with its log calls: "Report saved" inside the try block
\* after the write, "Error saving" in the handler. A log call that raised
\* inside the try block would land in the handler as well.
SaveReportLogged(st, content, write_ok, on_disk, oks) ==
    LET saved == SaveReport(content, write_ok, on_disk)
        tried == IF write_ok THEN LogAll(st, <<435>>, <<oks[1]>>) ELSE st
    IN  IF write_ok /\ ~tried.raised
        THEN [file |-> saved.file, filename |-> saved.filename, st |-> tried]
        ELSE [file |-> saved.file, filename |-> "",
              st |-> LogAll([tried EXCEPT !.raised = FALSE], <<438>>,
                            <<IF write_ok THEN TRUE ELSE oks[1]>>)]

\* The tail of run_analysis: save_report when asked to, "Report saved to"
\* when it returned a name, "Analysis completed!", "Log file:", return.
PersistSave ==
    /\ pc = "save"
    /\ \E write_ok \in BOOLEAN, oks \in AppendOutcomes(4) :
        LET sr == IF save_to_file
                  THEN SaveReportLogged(Logged, report, write_ok, saved_file, oks)
                  ELSE [file |-> saved_file, filename |-> filename, st |-> Logged]
            st == LogAll(sr.st,
                         (IF save_to_file /\ sr.filename # "" THEN <<478>> ELSE <<>>)
                         \o <<480, 481>>,
                         (IF save_to_file /\ sr.filename # "" THEN <<oks[2]>> ELSE <<>>)
                         \o <<oks[3], oks[4]>>)
        IN  IF st.raised THEN Propagate(st, sr.file)
            ELSE /\ Lands(st)
                 /\ saved_file' = sr.file
                 /\ filename' = sr.filename
                 /\ result' = "report"
                 /\ pc' = "returned"
                 /\ UNCHANGED <<cli, collector, commits, analysis, chat,
                                ai_summary, report, exit_code, outcome,
                                branches_found, enumerator, chat_calls>>

NextPersist ==
    \/ PersistBegin
    \/ PersistCollect
    \/ PersistAnalyze
    \/ PersistSummarize
    \/ PersistReport
    \/ PersistSave
    \/ MainFinish

SpecPersist == InitPersist /\ [][NextPersist]_vars

\* ================================================================ claims

\* Branch number k of the loop reported the commit h: its history query
\* gave a line for it.
Reports(k, h) ==
    \E i \in 1..Len(commit_lines[k]) : commit_lines[k][i][1] = h

Reported ==
    UNION {{commit_lines[k][i][1] : i \in 1..Len(commit_lines[k])} :
            k \in 1..Len(commit_lines)}

ReportedBy(h) == {k \in 1..Len(commit_lines) : Reports(k, h)}

EntriesFor(list, h) == {k \in 1..Len(list) : list[k].hash_full = h}

RECURSIVE SumOfLengths(_)
SumOfLengths(lists) ==
    IF lists = <<>> THEN 0 ELSE Len(Head(lists)) + SumOfLengths(Tail(lists))

NoTwoAlike(list) ==
    \A i, j \in 1..Len(list) : i # j => list[i].hash_full # list[j].hash_full

\* C1: the collector's list never holds two commits with the same
\* hash_full, and it is no longer than the lines the branches' history
\* queries gave, summed over the branches.
C1_UniqueAndBounded ==
    /\ NoTwoAlike(all_commits)
    /\ NoTwoAlike(limited_commits)
    /\ NoTwoAlike(commits)
    /\ pc \in {"collect", "collected"} =>
            /\ Len(all_commits) <= SumOfLengths(commit_lines)
            /\ Len(limited_commits) <= SumOfLengths(commit_lines)

\* C1's case: a commit that two branches reported is in the returned list.
C1_Witness ==
    /\ pc = "collected"
    /\ \E h \in Reported :
        Cardinality(ReportedBy(h)) = 2 /\ EntriesFor(limited_commits, h) # {}

\* C2 as stated: a commit reported by two branches has exactly one entry
\* in the returned list, attributed to the first of the branches.
C2_Original ==
    pc = "collected" =>
        \A h \in Reported :
            Cardinality(ReportedBy(h)) >= 2 =>
                /\ Cardinality(EntriesFor(limited_commits, h)) = 1
                /\ \A k \in EntriesFor(limited_commits, h) :
                    \A b \in ReportedBy(h) :
                        limited_commits[k].branch = branches[b]
                        \/ \E a \in ReportedBy(h) : a < b

\* The commit with hash h passes the identity filter.
Mine(h) ==
    \E k \in 1..Len(commit_lines) : \E i \in 1..Len(commit_lines[k]) :
        /\ commit_lines[k][i][1] = h
        /\ IsMyCommit(user_info, commit_lines[k][i][2], commit_lines[k][i][3])

FirstReporting(h) ==
    CHOOSE b \in ReportedBy(h) : \A a \in ReportedBy(h) : b <= a

\* C2 amended: a commit reported by two branches has at most one entry in
\* the returned list; it has exactly one when it passes the identity
\* filter and the retained commits do not exceed the maximum; and an entry
\* for it names the first branch of the loop that reported it.
C2_FirstBranchWins ==
    pc = "collected" =>
        \A h \in Reported :
            Cardinality(ReportedBy(h)) >= 2 =>
                /\ Cardinality(EntriesFor(limited_commits, h)) <= 1
                /\ Cardinality(EntriesFor(all_commits, h)) =
                        IF Mine(h) THEN 1 ELSE 0
                /\ Mine(h) /\ Len(all_commits) <= MAX_COMMITS_TO_ANALYZE =>
                        Cardinality(EntriesFor(limited_commits, h)) = 1
                /\ \A k \in EntriesFor(limited_commits, h) :
                        limited_commits[k].branch = branches[FirstReporting(h)]
                /\ \A k \in EntriesFor(all_commits, h) :
                        all_commits[k].branch = branches[FirstReporting(h)]

\* C2's case: the second branch of the loop reports a commit again that
\* the first one reported, and the returned list holds it.
C2_Witness ==
    /\ pc = "collected"
    /\ \E h \in Reported :
        /\ ReportedBy(h) = {1, 2}
        /\ \E k \in EntriesFor(limited_commits, h) :
                limited_commits[k].branch = branches[1]

\* The instant a --date=iso text denotes: wall clock minus UTC offset.
Timestamp(c) == c.date.wall - c.date.tz

\* C3 as stated: when more commits are retained than the maximum, the
\* returned list has exactly the maximum, is sorted by authored timestamp
\* descending and is the top of the retained set in that order.
C3_TruncationByTimestamp ==
    pc = "collected" /\ Len(all_commits) > MAX_COMMITS_TO_ANALYZE =>
        /\ Len(limited_commits) = MAX_COMMITS_TO_ANALYZE
        /\ \A k \in 1..(Len(limited_commits) - 1) :
                Timestamp(limited_commits[k]) >= Timestamp(limited_commits[k + 1])
        /\ \A k \in 1..Len(limited_commits) :
                EntriesFor(all_commits, limited_commits[k].hash_full) # {}
        /\ \A k \in 1..Len(limited_commits), j \in 1..Len(all_commits) :
                EntriesFor(limited_commits, all_commits[j].hash_full) = {} =>
                    Timestamp(limited_commits[k]) >= Timestamp(all_commits[j])

\* text contains part, both folded to lower case, spelled out by position.
ContainsFolded(text, part) ==
    \E at \in 0..(Len(text) - Len(part)) :
        \A j \in 1..Len(part) : LowerChar(text[at + j]) = LowerChar(part[j])

\* C4: a commit is retained only if its author name contains the resolved,
\* non-empty user name, or its author email the resolved, non-empty user
\* email, case ignored; with both resolved values empty nothing is
\* retained.
C4_OnlyMyCommits ==
    pc \in {"collect", "collected"} =>
        /\ \A k \in 1..Len(all_commits) :
            \/ /\ user_info.name # <<>>
               /\ ContainsFolded(all_commits[k].author, user_info.name)
            \/ /\ user_info.email # <<>>
               /\ ContainsFolded(all_commits[k].email, user_info.email)
        /\ user_info.name = <<>> /\ user_info.email = <<>> =>
                all_commits = <<>> /\ limited_commits = <<>>
        /\ \A k \in 1..Len(limited_commits) :
                EntriesFor(all_commits, limited_commits[k].hash_full) # {}

\* C4's case: with a resolved name, one reported commit is retained and
\* another reported commit is filtered out.
C4_Witness ==
    /\ pc = "collected"
    /\ user_info.name # <<>>
    /\ all_commits # <<>>
    /\ \E h \in Reported : EntriesFor(all_commits, h) = {}

\* The fields of an entry that a failed auxiliary query left empty.
Degraded(c) ==
    (IF c.files_changed # ShowNameOnly(c.hash_full) THEN 1 ELSE 0)
    + (IF c.diff_stats # ShowStat(c.hash_full) THEN 1 ELSE 0)

RECURSIVE SumDegraded(_)
SumDegraded(list) ==
    IF list = <<>> THEN 0 ELSE Degraded(Head(list)) + SumDegraded(Tail(list))

IsPrefix(s, t) == Len(s) <= Len(t) /\ SubSeq(t, 1, Len(s)) = s

C5_State ==
    pc \in {"collect", "collected"} =>
        /\ Len(commit_lines) = branch_idx
        /\ pc = "collected" => branch_idx = Len(branches)
        /\ \A k \in 1..Len(commit_lines) : \A i \in 1..Len(commit_lines[k]) :
            LET line == commit_lines[k][i] IN
            IsMyCommit(user_info, line[2], line[3]) =>
                \E e \in EntriesFor(all_commits, line[1]) :
                    /\ all_commits[e].author = line[2]
                    /\ all_commits[e].email = line[3]
                    /\ all_commits[e].date = line[4]
                    /\ all_commits[e].message = line[5]
                    /\ all_commits[e].files_changed
                            \in {<<>>, ShowNameOnly(line[1])}
                    /\ all_commits[e].diff_stats \in {<<>>, ShowStat(line[1])}
        /\ SumDegraded(all_commits) <= failures

C5_Step ==
    pc = "collect" /\ pc' \in {"collect", "collected"} =>
        IsPrefix(all_commits, all_commits')

\* C5: a failing query empties its own result only. The loop still visits
\* every branch, what was accumulated stays, every matching commit that a
\* branch reported is in the list before truncation with the fields of its
\* line, and no more fields are empty than queries have failed.
C5_FailureIsolated == []C5_State /\ [][C5_Step]_vars

\* C5's case: a changed-files query failed; the commit is retained with
\* its diff statistics, next to another commit.
C5_Witness ==
    /\ pc = "collected"
    /\ failures >= 1
    /\ Len(all_commits) >= 2
    /\ \E k \in 1..Len(all_commits) :
        /\ all_commits[k].files_changed = <<>>
        /\ ShowNameOnly(all_commits[k].hash_full) # <<>>
        /\ all_commits[k].diff_stats = ShowStat(all_commits[k].hash_full)

\* The chat completion failed: no response at all, or a status outside 2xx.
ChatFailed ==
    \/ chat.kind = "network_error"
    \/ chat.kind = "response" /\ (chat.status < 200 \/ chat.status > 299)

Fallbacks == {"failed_api_error", "failed_network_error", "failed_exception"}

\* run_analysis went through to its last line.
RanThrough == pc \in {"returned", "exited"} /\ result = "report"

\* C6 as stated: after a failed chat completion the digest is a fallback
\* text with the status code in it, the report embeds it, the exit code is
\* 0 and the report file is written unless file-save is suppressed.
C6_Original ==
    RanThrough /\ commits # <<>> /\ ChatFailed =>
        /\ ai_summary.kind \in Fallbacks
        /\ ai_summary.status_code # 0
        /\ report.digest = ai_summary
        /\ pc = "exited" => exit_code = 0
        /\ save_to_file => saved_file = report

\* C6 amended: after a failed chat completion the digest is a fallback
\* text, with the status code in it when a response came and naming the
\* transport error otherwise; the report embeds it; the exit code is 0;
\* unless file-save is suppressed save_report is called with the report,
\* and the report is on disk whenever that write succeeds.
C6_FallbackDigest ==
    RanThrough /\ commits # <<>> /\ ChatFailed =>
        /\ ai_summary.kind \in Fallbacks
        /\ chat.kind = "response" =>
                ai_summary.status_code = chat.status /\ chat.status # 0
        /\ chat.kind = "network_error" =>
                ai_summary.kind = "failed_network_error"
        /\ report.present /\ report.digest = ai_summary
        /\ pc = "exited" => exit_code = 0
        /\ save_to_file => filename # "none"
        /\ save_to_file /\ filename # "" => saved_file = report
        /\ ~save_to_file => filename = "none" /\ saved_file = NoReport

\* C6's case: the chat completion answered 500, the run ended, the report
\* with the fallback digest is on disk.
C6_Witness ==
    /\ pc = "exited"
    /\ result = "report"
    /\ chat.kind = "response" /\ chat.status = 500
    /\ saved_file = report
    /\ report.digest.status_code = 500

\* C7 as stated: in a run whose enumerator gave no branch the collection
\* is empty, the digest is the "no commits" literal and a report with
\* zero statistics is rendered.
C7_Original ==
    pc = "exited" /\ outcome = "completed" /\ branches_found = 0 =>
        /\ commits = <<>>
        /\ ai_summary.kind = "no_commits"
        /\ report.present
        /\ report.my_commits = 0
        /\ report.files_modified = 0
        /\ report.kotlin_files = 0
        /\ report.branches_touched = 0

\* C7 amended: in a run whose enumerator gave no branch the collection is
\* empty and run_analysis returns its "no commits found" message at once;
\* the digest builder and the report renderer are not called, and no report
\* is rendered or saved.
C7_NoBranchesNoReport ==
    pc \in {"returned", "exited"} /\ outcome \in {"running", "completed"}
        /\ branches_found = 0 =>
            /\ commits = <<>>
            /\ result = "no_commits_found"
            /\ chat = NoChat
            /\ ai_summary = NoSummary
            /\ report = NoReport
            /\ filename = "none"
            /\ saved_file = NoReport
            /\ pc = "exited" => exit_code = 0

\* C7's case: a run in a repository without branches has ended.
C7_Witness ==
    /\ pc = "exited"
    /\ outcome = "completed"
    /\ branches_found = 0
    /\ result = "no_commits_found"

\* C10 as stated: exit code 1 on a missing credential or an unexpected
\* failure, 0 on completion or interruption, in both modes.
C10_ExitCodes ==
    pc = "exited" =>
        /\ outcome \in {"missing_credential", "unexpected_error"} =>
                exit_code = 1
        /\ outcome \in {"completed", "interrupted"} => exit_code = 0

\* C8: on an empty collection the aggregator gives zero for every count
\* and nothing in every collection, and the document rendered from that
\* has neither the per-commit nor the per-language-file section.
C8_EmptyCollection ==
    commits = <<>> =>
        /\ pc \in {"generate_report", "rendered"} =>
            /\ analysis.total_commits = 0
            /\ analysis.total_files = 0
            /\ analysis.kotlin_files = 0
            /\ analysis.android_files = 0
            /\ analysis.branches = {}
            /\ DOMAIN analysis.file_types = {}
            /\ analysis.kotlin_file_list = {}
            /\ analysis.android_file_list = {}
        /\ pc = "rendered" =>
            /\ report.present
            /\ ~report.commit_section.present
            /\ ~report.kotlin_section.present
            /\ report.my_commits = 0
            /\ report.files_modified = 0

\* C8's case: a document has been rendered from the empty collection.
C8_Witness ==
    /\ pc = "rendered"
    /\ commits = <<>>
    /\ report.present
    /\ ai_summary.kind = "no_commits"

\* The position of the first '/' in s, 0 when there is none.
FirstSlash(s) ==
    IF \E i \in 1..Len(s) : s[i] = "/"
    THEN CHOOSE i \in 1..Len(s) : s[i] = "/" /\ \A j \in 1..(i - 1) : s[j] # "/"
    ELSE 0

\* One leading path segment, the remote's name, removed.
WithoutRemoteName(s) == SubSeq(s, FirstSlash(s) + 1, Len(s))

\* The entry is a remote's pointer to its default branch: <remote>/HEAD.
IsDefaultPointer(s) == WithoutRemoteName(s) = <<"H","E","A","D">>

\* C9 as stated: the enumerator's result is every local entry without
\* marker and surrounding blanks, and every remote entry other than a
\* default-branch pointer without its one leading remote-name segment.
C9_Normalized ==
    pc = "enumerated" =>
        all_branches =
            {Strip(local_branches[i]) : i \in 1..Len(local_branches)}
            \cup {WithoutRemoteName(remote_branches[i]) :
                    i \in {j \in 1..Len(remote_branches) :
                        ~IsDefaultPointer(remote_branches[j])}}

\* The log_message calls a run has made, in order, warnings left out.
Sites(con) == SelectSeq(con, LAMBDA x : x # LOG_WARNING)

\* What follows the collector's closing "Found ..." line.
RECURSIVE AfterCollector(_)
AfterCollector(sites) ==
    IF sites = <<>> THEN <<>>
    ELSE IF Head(sites) = 215 THEN Tail(sites)
    ELSE AfterCollector(Tail(sites))

RECURSIVE IsSubSeq(_, _)
IsSubSeq(a, b) ==
    IF a = <<>> THEN TRUE
    ELSE IF b = <<>> THEN FALSE
    ELSE IF Head(a) = Head(b) THEN IsSubSeq(Tail(a), Tail(b))
    ELSE IsSubSeq(a, Tail(b))

\* The log calls of a complete run after the collection, as the run's
\* inputs and results alone determine them.
SitesOfCompleteRun ==
    {<<465, 468>> \o DigestSites(chat, usage)
        \o (IF ~save_to_file THEN <<>>
            ELSE IF filename = "" THEN <<438>> ELSE <<435, 478>>)
        \o <<480, 481>> : usage \in BOOLEAN}

\* The report generate_report renders for the run's commits and answer.
CompleteReports ==
    {GenerateReport(commits, AnalyzeMyCommits(commits), GenerateBulletSummary(commits, chat), [name |-> name, email |-> email], bs, ks) :
        name \in UserNames, email \in UserEmails,
        bs \in Slices(AnalyzeMyCommits(commits).branches, REPORT_BRANCH_CAP),
        ks \in Slices(AnalyzeMyCommits(commits).kotlin_file_list, REPORT_KOTLIN_CAP)}

\* C11: a persistence failure is never fatal. No failed write of the report
\* or of the log raises out of run_analysis: the process never ends on an
\* unexpected error. When the report's write fails, save_report returns ''
\* leaving no file, and run_analysis still returns the complete report and
\* the process exits 0. Whatever appends to the log failed, the log calls
\* made (the control flow) and the report returned are those the run's
\* inputs determine, and the log file holds the entries whose append went
\* through.
C11_PersistenceNotFatal ==
    /\ outcome \in {"running", "completed"}
    /\ exit_code \in {-1, 0}
    /\ IsSubSeq(log_file, Sites(console))
    /\ Len(log_file) + Warnings(console) = Len(Sites(console))
    /\ pc \in {"returned", "exited"} =>
        /\ result \in {"not_a_git_repository", "no_commits_found", "report"}
        /\ result = "not_a_git_repository" =>
            Sites(console) \in {<<450>>, <<444, 445, 450>>}
        /\ result = "no_commits_found" =>
            /\ AfterCollector(Sites(console)) = <<460>>
            /\ commits = <<>>
        /\ result = "report" =>
            /\ AfterCollector(Sites(console)) \in SitesOfCompleteRun
            /\ report \in CompleteReports
            /\ save_to_file => filename \in {"", REPORT_FILENAME}
            /\ save_to_file /\ filename = "" => saved_file = NoReport
            /\ save_to_file /\ filename # "" => saved_file = report
            /\ ~save_to_file => filename = "none" /\ saved_file = NoReport
        /\ pc = "exited" => exit_code = 0 /\ outcome = "completed"

\* C11 witness: a run in which an append to the log failed and the write of
\* the report failed has returned its report and exited 0.
C11_Witness ==
    /\ pc = "exited"
    /\ exit_code = 0
    /\ result = "report"
    /\ save_to_file
    /\ filename = ""
    /\ Warnings(console) > 0
    /\ report.present

\* How often the collector has run a git command, and where first.
CallCount(cmd, arg) ==
    Cardinality({i \in 1..Len(git_calls) : git_calls[i] = GitCall(cmd, arg)})

FirstCall(cmd, arg) ==
    CHOOSE i \in 1..Len(git_calls) :
        /\ git_calls[i] = GitCall(cmd, arg)
        /\ \A j \in 1..(i - 1) : git_calls[j] # GitCall(cmd, arg)

\* C12: no external call is retried within one run. While the collector
\* runs, every branch of the loop already processed has received exactly
\* one history query, failed or not, and no other branch any; every commit
\* in the accumulated list has received exactly one changed-files query and
\* exactly one diff-statistics query, in that order and after the history
\* query of the branch it is attributed to; a commit not in the list (never
\* reported, a repeat of a known one, or rejected by the identity filter)
\* has received none for being skipped; and the collector has run no other
\* git command. generate_bullet_summary has sent at most one chat request:
\* one when an answer came back, none before.
C12_NoRetry ==
    /\ chat_calls <= 1
    /\ chat_calls = (IF chat = NoChat THEN 0 ELSE 1)
    /\ pc \in {"collect", "collected"} =>
        /\ \A k \in 1..Len(branches) :
            CallCount("log", branches[k]) = (IF k <= branch_idx THEN 1 ELSE 0)
        /\ \A i \in CommitIds :
            LET retained == IF EntriesFor(all_commits, HashOf(i)) # {} THEN 1 ELSE 0
            IN  /\ CallCount("show --name-only", HashOf(i)) = retained
                /\ CallCount("show --stat", HashOf(i)) = retained
        /\ Len(git_calls) = branch_idx + 2 * Len(all_commits)
        /\ \A k \in 1..Len(all_commits) :
            LET h == all_commits[k].hash_full
            IN  /\ FirstCall("log", all_commits[k].branch) < FirstCall("show --name-only", h)
                /\ FirstCall("show --stat", h) = FirstCall("show --name-only", h) + 1

\* C12 witness: the collector has gone through two branches with a failed
\* query among its calls; a commit both branches reported is in the list
\* (its second line was skipped by dedup) and a reported commit was skipped
\* by the identity filter.
C12_Witness ==
    /\ pc = "collected"
    /\ Len(branches) = 2
    /\ failures >= 1
    /\ \E h \in Reported :
        /\ Cardinality(ReportedBy(h)) = 2
        /\ EntriesFor(all_commits, h) # {}
    /\ \E h \in Reported : ~Mine(h) /\ CallCount("show --stat", h) = 0
    /\ Len(git_calls) > 2

\* The distinct paths in the commits' lists of one kind, commit by commit.
RECURSIVE DistinctPaths(_, _)
DistinctPaths(list, field) ==
    IF list = <<>> THEN {}
    ELSE Range(Head(list)[field]) \cup DistinctPaths(Tail(list), field)

\* How many changed-file entries of the commits carry the extension.
RECURSIVE Occurrences(_, _)
Occurrences(ext, list) ==
    IF list = <<>> THEN 0
    ELSE Len(SelectSeq(Head(list).files_changed, LAMBDA f : ExtOf(f) = ext))
         + Occurrences(ext, Tail(list))

RECURSIVE ChangedEntries(_)
ChangedEntries(list) ==
    IF list = <<>> THEN 0
    ELSE Len(Head(list).files_changed) + ChangedEntries(Tail(list))

RECURSIVE HistogramTotal(_, _)
HistogramTotal(hist, exts) ==
    IF exts = {} THEN 0
    ELSE LET x == CHOOSE x \in exts : TRUE
         IN  hist[x] + HistogramTotal(hist, exts \ {x})

\* C13: once analyze_my_commits has returned for a commit collection,
\* total_commits is the number of commits; total_files, kotlin_files and
\* android_files are the numbers of distinct paths over the commits'
\* files_changed, kotlin_files and android_files lists; branches is the set
\* of the commits' branches; and file_types has one key per extension met,
\* whose count is the number of changed-file entries with that extension
\* over all commits, so that the counts add up to the summed lengths of the
\* files_changed lists, which is at least the distinct-file count.
C13_AnalysisCounts ==
    pc \in {"generate_report", "rendered"} =>
        /\ analysis.total_commits = Len(commits)
        /\ analysis.total_files = Cardinality(DistinctPaths(commits, "files_changed"))
        /\ analysis.kotlin_files = Cardinality(DistinctPaths(commits, "kotlin_files"))
        /\ analysis.android_files = Cardinality(DistinctPaths(commits, "android_files"))
        /\ analysis.branches = {commits[k].branch : k \in 1..Len(commits)}
        /\ DOMAIN analysis.file_types = {ExtOf(f) : f \in DistinctPaths(commits, "files_changed")}
        /\ \A x \in DOMAIN analysis.file_types :
            analysis.file_types[x] = Occurrences(x, commits)
        /\ HistogramTotal(analysis.file_types, DOMAIN analysis.file_types) = ChangedEntries(commits)
        /\ analysis.total_files <= ChangedEntries(commits)

\* C13 witness: analyze_my_commits has returned for two commits of two
\* branches that changed a path in common, one of them a Kotlin file and
\* one without extension: the histogram counts more entries than there are
\* distinct files.
C13_Witness ==
    /\ pc = "generate_report"
    /\ Len(commits) = 2
    /\ Cardinality(analysis.branches) = 2
    /\ Range(commits[1].files_changed) \cap Range(commits[2].files_changed) # {}
    /\ commits[1].files_changed # commits[2].files_changed
    /\ analysis.kotlin_files >= 1
    /\ NO_EXTENSION \in DOMAIN analysis.file_types
    /\ HistogramTotal(analysis.file_types, DOMAIN analysis.file_types) > analysis.total_files

====
